---------------------------- MODULE Spec2Model ----------------------------
(***************************************************************************)
(* A model of the GloGNN small-scale pipeline (glognn/small-scale/main.py) *)
(* and of the JacobiConv dataset split (JacobiConv/datasets.py).           *)
(*                                                                         *)
(* Tensors are matrices of extended rationals: a number is a pair <<n, d>> *)
(* with d >= 0 in lowest terms; <<1,0>> is +inf, <<-1,0>> is -inf and      *)
(* <<0,0>> is NaN, so that the IEEE results of 1/0, inf*0 and inf-inf are  *)
(* computed, not assumed.  Rounding is not modelled: the arithmetic is     *)
(* exact.                                                                  *)
(***************************************************************************)
EXTENDS Integers, Sequences, FiniteSets, TLC

VARIABLES
    pc,             \* the position of the script / the operation last applied
    \* ---- MLP_NORM and its inputs
    adj,            \* the normalized adjacency handed to the model
    x,              \* the residual / the current embedding
    h0,             \* the initial embedding of one forward pass
    orders,         \* self.orders
    orders_weight,  \* self.orders_weight, one scalar per order
    orders_weight_matrix, orders_weight_matrix2,   \* the matrices of Orders3
    diag_weight,    \* self.diag_weight, one scalar per class
    norm_func_id,   \* selects self.norm
    norm_layers,    \* self.norm_layers
    layer,          \* the iterations of the loop of forward done so far
    orders_func_id, \* selects self.order_func
    alpha, beta, gamma,
    scale,          \* the scalar the weight vector is multiplied by
    result,         \* what the operation returned (or the error it raised)
    result2,        \* what the second call returned
    lapack_build,   \* what torch.inverse of this build does with inf / NaN
    \* ---- load_data_new
    mx,             \* the raw matrix handed to normalize
    \* ---- the training script
    epochs, early_stopping, fastmode,
    epoch, best_metric, patience, best_params, metric_val,
    heap,           \* tensor storage: address -> parameter value
    output,         \* the forward pass the metrics are computed on
    raised,         \* where a metric computation raised, if it did
    crash,          \* the uncaught exception that ended the run, if any
    stop,           \* why the training loop was left
    last_improve,   \* history: the last epoch whose metric_val > best_metric
    \* ---- datasets.split
    split_mode, has_masks, train_mask, val_mask, test_mask, mask,
    \* ---- the loaders: datasets.load_dataset and load_data_new
    called,         \* the function called: split, load_dataset or load_data_new
    dataset_str,    \* the dataset name handed to a loader
    done,           \* what the call has loaded, built, saved, returned, in order
    \* ---- MLP_NORM.forward up to h0
    features,       \* the feature matrix handed to forward
    fc1, fc2, fc3,  \* the three nn.Linear layers: [weight, bias]
    delta,
    dropout,        \* self.dropout, the rate p
    training,       \* self.training
    drop_mask1, drop_mask2   \* the keep masks the two F.dropout calls draw

numVars   == <<adj, x, h0, orders, orders_weight, orders_weight_matrix,
               orders_weight_matrix2, diag_weight, norm_func_id, norm_layers,
               layer, orders_func_id,
               alpha, beta, gamma, scale, result, result2, lapack_build>>
dataVars  == <<mx>>
trainVars == <<epochs, early_stopping, fastmode, epoch, best_metric, patience,
               best_params, metric_val, heap, output, raised, crash, stop,
               last_improve>>
splitVars == <<split_mode, has_masks, train_mask, val_mask, test_mask, mask,
               called, dataset_str, done>>
fwdVars   == <<features, fc1, fc2, fc3, delta, dropout, training,
               drop_mask1, drop_mask2>>
vars      == <<pc, numVars, dataVars, trainVars, splitVars, fwdVars>>

(***************************************************************************)
(* Bounds of the model.                                                    *)
(***************************************************************************)
NNodes     == 2     \* number of graph nodes
MaxOrders  == 2     \* orders is drawn from 0 .. MaxOrders
NFeat      == 2     \* number of feature columns
MaxEpochs  == 4     \* args.epochs is drawn from 0 .. MaxEpochs
MaxPatience == 2    \* args.early_stopping is drawn from 0 .. MaxPatience
MaxMetric  == 2     \* a metric value is one of the levels 0 .. MaxMetric

\* nclass = labels.max().item() + 1: the two-class setting
nclass == 2

\* nhid = args.hidden
nhid == 2

(***************************************************************************)
(* Extended rational arithmetic.                                           *)
(***************************************************************************)
Abs(n) == IF n < 0 THEN -n ELSE n
Sgn(n) == IF n < 0 THEN -1 ELSE IF n > 0 THEN 1 ELSE 0

RECURSIVE GCD(_, _)
GCD(a, b) == IF b = 0 THEN a ELSE GCD(b, a % b)

\* the number n/d in lowest terms; n/0 is an infinity or NaN
Q(n, d) ==
    IF d = 0 THEN <<Sgn(n), 0>>
    ELSE LET g == GCD(Abs(n), Abs(d))
         IN  <<(Sgn(d) * n) \div g, Abs(d) \div g>>

Zero == <<0, 1>>
One  == <<1, 1>>
Inf  == <<1, 0>>
NaN  == <<0, 0>>
I2Q(n) == <<n, 1>>

IsFinite(a) == a[2] # 0
IsInf(a)    == a[2] = 0 /\ a[1] # 0

QAdd(a, b) ==
    IF a[2] = 0 /\ b[2] = 0 THEN (IF a = b THEN a ELSE NaN)
    ELSE IF a[2] = 0 THEN a
    ELSE IF b[2] = 0 THEN b
    ELSE LET g == GCD(a[2], b[2])
         IN  Q(a[1] * (b[2] \div g) + b[1] * (a[2] \div g), (a[2] \div g) * b[2])
QNeg(a)    == <<-a[1], a[2]>>
QSub(a, b) == QAdd(a, QNeg(b))
QMul(a, b) == Q(a[1] * b[1], a[2] * b[2])
QDiv(a, b) ==
    IF b[1] = 0 THEN (IF b[2] = 0 THEN NaN ELSE Q(a[1], 0))
    ELSE Q(a[1] * b[2] * Sgn(b[1]), a[2] * Abs(b[1]))

\* the sum of the sequence s, accumulated left to right
RECURSIVE QSumTo(_, _)
QSumTo(s, n) == IF n = 0 THEN Zero ELSE QAdd(QSumTo(s, n - 1), s[n])
QSum(s) == QSumTo(s, Len(s))

(***************************************************************************)
(* Matrices: a sequence of rows, each a sequence of numbers.               *)
(***************************************************************************)
Rows(M) == Len(M)
Cols(M) == IF Len(M) = 0 THEN 0 ELSE Len(M[1])

Row(f, n) == SubSeq(f, 1, n)

eye(n) == Row([i \in 1..n |-> Row([j \in 1..n |-> IF i = j THEN One ELSE Zero], n)], n)
zeros(n, m) == Row([i \in 1..n |-> Row([j \in 1..m |-> Zero], m)], n)

\* The rows and the matrix are built as tuples (SubSeq of a function over
\* 1..n is that function as a tuple), so that a result is computed once and
\* not again at each use of one of its entries.
transpose(M) ==
    Row([j \in 1..Cols(M) |-> Row([i \in 1..Rows(M) |-> M[i][j]], Rows(M))], Cols(M))
MatAdd(A, B) ==
    Row([i \in 1..Rows(A) |->
            Row([j \in 1..Cols(A) |-> QAdd(A[i][j], B[i][j])], Cols(A))], Rows(A))
MatSub(A, B) ==
    Row([i \in 1..Rows(A) |->
            Row([j \in 1..Cols(A) |-> QSub(A[i][j], B[i][j])], Cols(A))], Rows(A))
MatScale(c, A) ==
    Row([i \in 1..Rows(A) |->
            Row([j \in 1..Cols(A) |-> QMul(c, A[i][j])], Cols(A))], Rows(A))
\* torch.mm / torch.spmm: the dense product (a sparse operand stores the same values)
mm(A, B) ==
    Row([i \in 1..Rows(A) |->
            Row([j \in 1..Cols(B) |->
                    QSum([k \in 1..Cols(A) |-> QMul(A[i][k], B[k][j])])], Cols(B))],
        Rows(A))
spmm(A, B) == mm(A, B)

MatFinite(M) == \A i \in 1..Rows(M) : \A j \in 1..Cols(M) : IsFinite(M[i][j])

\* what an operation hands back: a value, or the exception it raised
Ok(v)    == [err |-> "", val |-> v]
Raise(e) == [err |-> e, val |-> <<>>]
NoResult == [err |-> "not called", val |-> <<>>]

(***************************************************************************)
(* load_data_new: row normalization and the adjacency handed to the model. *)
(***************************************************************************)
\* np.power(rowsum, -1): the reciprocal, 0^-1 being inf
r_inv_raw(M) == Row([i \in 1..Rows(M) |-> QDiv(One, QSum(M[i]))], Rows(M))

\* r_inv[np.isinf(r_inv)] = 0. omitted
normalize_keep_inf(M) ==
    LET r_inv == r_inv_raw(M)
    IN  Row([i \in 1..Rows(M) |->
                Row([j \in 1..Cols(M) |-> QMul(r_inv[i], M[i][j])], Cols(M))], Rows(M))

\* normalize(mx): r_mat_inv.dot(mx) with the infinite reciprocals set to 0
normalize(M) ==
    LET raw   == r_inv_raw(M)
        r_inv == [i \in 1..Rows(M) |-> IF IsInf(raw[i]) THEN Zero ELSE raw[i]]
    IN  Row([i \in 1..Rows(M) |->
                Row([j \in 1..Cols(M) |-> QMul(r_inv[i], M[i][j])], Cols(M))], Rows(M))

\* adj = normalize(adj + sp.eye(adj.shape[0]))
load_adj(raw_adj) == normalize(MatAdd(raw_adj, eye(Rows(raw_adj))))

\* features = normalize(features)
load_features(M) == normalize(M)

\* nx.adjacency_matrix of an undirected graph without self-loops: symmetric,
\* entries 0 or 1, zero diagonal
RawAdjacencies ==
    {M \in [1..NNodes -> [1..NNodes -> {Zero, One}]] :
        \A i, j \in 1..NNodes : M[i][j] = M[j][i] /\ M[i][i] = Zero}

\* the values an embedding entry is drawn from
Entries == {Zero, One}
\* an N x nclass embedding
Embeddings == [1..NNodes -> [1..nclass -> Entries]]

(***************************************************************************)
(* MLP_NORM: the propagation operators.                                    *)
(***************************************************************************)
RECURSIVE order_loop1(_, _, _, _)
order_loop1(A, tmp_orders, sum_orders, n) ==
    IF n = 0 THEN sum_orders
    ELSE LET t == spmm(A, tmp_orders)
         IN  order_loop1(A, t, MatAdd(sum_orders, t), n - 1)

\* the raw residual left out of the sum
order_func1_no_raw(K, res, A) ==
    IF K = 0 THEN Ok(zeros(Rows(res), Cols(res)))
    ELSE LET t == spmm(A, res) IN Ok(order_loop1(A, t, t, K - 1))

\* order_func1(x, res, adj) with self.orders = K
order_func1(K, res, A) == Ok(order_loop1(A, res, res, K))

\* for i in range(from, orders): tmp = A tmp; sum = sum + tmp * orders_weight[i]
\* (orders_weight[i] of the code is w[i + 1] here)
RECURSIVE order_loop2(_, _, _, _, _, _)
order_loop2(A, w, tmp_orders, sum_orders, i, K) ==
    IF i >= K THEN sum_orders
    ELSE LET t == spmm(A, tmp_orders)
         IN  order_loop2(A, w, t, MatAdd(sum_orders, MatScale(w[i + 1], t)), i + 1, K)

\* the first power taken unweighted
order_func2_unweighted_first(K, w, res, A) ==
    IF Len(w) = 0 THEN Raise("IndexError")
    ELSE LET t == spmm(A, res) IN Ok(order_loop2(A, w, t, t, 1, K))

\* order_func2(x, res, adj) with self.orders = K and self.orders_weight = w;
\* orders_weight[0] of an empty weight vector raises IndexError
order_func2(K, w, res, A) ==
    IF Len(w) = 0 THEN Raise("IndexError")
    ELSE LET t == spmm(A, res)
         IN  Ok(order_loop2(A, w, t, MatScale(w[1], t), 1, K))

\* self.orders_weight = Parameter(torch.ones(orders, 1) / orders)
init_orders_weight(K) == [k \in 1..K |-> QDiv(One, I2Q(K))]

relu(M) ==
    Row([i \in 1..Rows(M) |->
            Row([j \in 1..Cols(M) |-> IF M[i][j][1] < 0 THEN Zero ELSE M[i][j]],
                Cols(M))], Rows(M))

\* orders_para[k].unsqueeze(1) * tmp_orders: node n of tmp scaled by para[n][k]
RowScale(para, k, M) ==
    Row([n \in 1..Rows(M) |->
            Row([j \in 1..Cols(M) |-> QMul(para[n][k], M[n][j])], Cols(M))], Rows(M))

RECURSIVE order_loop3(_, _, _, _, _, _)
order_loop3(A, para, tmp_orders, sum_orders, i, K) ==
    IF i >= K THEN sum_orders
    ELSE LET t == spmm(A, tmp_orders)
         IN  order_loop3(A, para, t, MatAdd(sum_orders, RowScale(para, i + 1, t)), i + 1, K)

\* order_func3(x, res, adj); orders_para (N x orders here, before the transpose
\* of the code) has no row 0 once transposed when orders = 0
order_func3(K, M1, M2, X, res, A) ==
    IF K = 0 THEN Raise("IndexError")
    ELSE LET orders_para == mm(relu(mm(X, M1)), M2)
             t == spmm(A, res)
         IN  Ok(order_loop3(A, orders_para, t, RowScale(orders_para, 1, t), 1, K))

\* self.order_func, chosen in __init__ by orders_func_id
order_func(self, X, res, A) ==
    IF self.orders_func_id = 1 THEN order_func1(self.orders, res, A)
    ELSE IF self.orders_func_id = 2
         THEN order_func2(self.orders, self.orders_weight, res, A)
    ELSE order_func3(self.orders, self.orders_weight_matrix,
                     self.orders_weight_matrix2, X, res, A)

(***************************************************************************)
(* torch.inverse.                                                          *)
(***************************************************************************)
\* M without row i and column j
Minor(M, i, j) ==
    Row([r \in 1..(Rows(M) - 1) |->
            Row([c \in 1..(Cols(M) - 1) |->
                    M[IF r < i THEN r ELSE r + 1][IF c < j THEN c ELSE c + 1]],
                Cols(M) - 1)], Rows(M) - 1)

RECURSIVE Det(_)
Det(M) ==
    IF Rows(M) = 0 THEN One
    ELSE QSum([j \in 1..Cols(M) |->
            QMul(IF j % 2 = 1 THEN M[1][j] ELSE QNeg(M[1][j]), Det(Minor(M, 1, j)))])

\* The inverse of a square matrix.  A singular matrix raises; a matrix holding
\* inf or NaN either raises or comes back all NaN, whichever the LAPACK build
\* does (lapack is that outcome).
inverse(M, lapack) ==
    IF ~MatFinite(M)
    THEN IF lapack = "raise" THEN Raise("LinAlgError")
         ELSE Ok(Row([i \in 1..Rows(M) |-> Row([j \in 1..Cols(M) |-> NaN], Cols(M))],
                     Rows(M)))
    ELSE LET d == Det(M)
         IN  IF d = Zero THEN Raise("LinAlgError")
             ELSE Ok(Row([i \in 1..Rows(M) |->
                        Row([j \in 1..Cols(M) |->
                                QDiv(IF (i + j) % 2 = 0 THEN Det(Minor(M, j, i))
                                     ELSE QNeg(Det(Minor(M, j, i))), d)], Cols(M))],
                     Rows(M)))

LapackOutcomes == {"nan", "raise"}

(***************************************************************************)
(* MLP_NORM: the normalization step.                                       *)
(***************************************************************************)
\* the correction step with inv in place of inv . (X^T X)
norm_func1_no_proj(self, X, H0, A, lapack) ==
    LET coe  == QDiv(One, QAdd(self.alpha, self.beta))
        coe1 == QSub(One, self.gamma)
        coe2 == QDiv(One, coe1)
        res0 == mm(transpose(X), X)
        invr == inverse(MatAdd(MatScale(QMul(coe2, coe2), eye(nclass)),
                               MatScale(coe, res0)), lapack)
    IN  IF invr.err # "" THEN invr
        ELSE LET res2 == MatSub(MatScale(QMul(coe1, coe), X),
                                MatScale(QMul(QMul(coe1, coe), coe), mm(X, invr.val)))
                 tmp  == mm(transpose(X), res2)
                 sum_orders == order_func(self, X, res2, A)
             IN  IF sum_orders.err # "" THEN sum_orders
                 ELSE Ok(MatAdd(MatSub(MatAdd(MatScale(coe1, mm(X, tmp)),
                                              MatScale(self.beta, sum_orders.val)),
                                       MatScale(QMul(self.gamma, coe1), mm(H0, tmp))),
                                MatScale(self.gamma, H0)))

\* norm_func1(x, h0, adj)
norm_func1(self, X, H0, A, lapack) ==
    LET coe  == QDiv(One, QAdd(self.alpha, self.beta))
        coe1 == QSub(One, self.gamma)
        coe2 == QDiv(One, coe1)
        res0 == mm(transpose(X), X)
        invr == inverse(MatAdd(MatScale(QMul(coe2, coe2), eye(nclass)),
                               MatScale(coe, res0)), lapack)
    IN  IF invr.err # "" THEN invr
        ELSE LET res1 == mm(invr.val, res0)
                 res2 == MatSub(MatScale(QMul(coe1, coe), X),
                                MatScale(QMul(QMul(coe1, coe), coe), mm(X, res1)))
                 tmp  == mm(transpose(X), res2)
                 sum_orders == order_func(self, X, res2, A)
             IN  IF sum_orders.err # "" THEN sum_orders
                 ELSE Ok(MatAdd(MatSub(MatAdd(MatScale(coe1, mm(X, tmp)),
                                              MatScale(self.beta, sum_orders.val)),
                                       MatScale(QMul(self.gamma, coe1), mm(H0, tmp))),
                                MatScale(self.gamma, H0)))

\* (N x C) * diag_weight.t(): column j scaled by d[j]
ColScale(d, M) ==
    Row([i \in 1..Rows(M) |->
            Row([j \in 1..Cols(M) |-> QMul(d[j], M[i][j])], Cols(M))], Rows(M))
\* diag_weight * (C x C): row i scaled by d[i]
DiagRowScale(d, M) ==
    Row([i \in 1..Rows(M) |->
            Row([j \in 1..Cols(M) |-> QMul(d[i], M[i][j])], Cols(M))], Rows(M))

\* for i in range(1, orders): adjk = adjk adj; a_sum += adjk * orders_weight[i]
RECURSIVE a_sum_loop(_, _, _, _, _, _)
a_sum_loop(A, w, adjk, a_sum, i, K) ==
    IF i >= K THEN a_sum
    ELSE LET nxt == mm(adjk, A)
         IN  a_sum_loop(A, w, nxt, MatAdd(a_sum, MatScale(w[i + 1], nxt)), i + 1, K)

\* "calculate z": computed after res and never used; only what it raises shows
calc_z(self, X, H0, A, lapack) ==
    IF Len(self.orders_weight) = 0 THEN Raise("IndexError")
    ELSE LET coe1  == QSub(One, self.gamma)
             xx    == mm(X, transpose(X))
             hx    == mm(H0, transpose(X))
             a_sum == a_sum_loop(A, self.orders_weight, A,
                                 MatScale(self.orders_weight[1], A), 1, self.orders)
             invr  == inverse(MatAdd(MatScale(QMul(coe1, coe1), xx),
                                     MatScale(QAdd(self.alpha, self.beta), eye(Rows(X)))),
                              lapack)
         IN  IF invr.err # "" THEN invr
             ELSE Ok(mm(MatSub(MatAdd(MatScale(coe1, xx), MatScale(self.beta, a_sum)),
                               MatScale(QMul(self.gamma, coe1), hx)),
                        invr.val))

\* norm_func2(x, h0, adj)
norm_func2(self, X, H0, A, lapack) ==
    LET coe  == QDiv(One, QAdd(self.alpha, self.beta))
        coe1 == QSub(One, self.gamma)
        coe2 == QDiv(One, coe1)
        res0 == mm(transpose(X), X)
        invr == inverse(MatAdd(MatScale(QMul(coe2, coe2), eye(nclass)),
                               MatScale(coe, res0)), lapack)
    IN  IF invr.err # "" THEN invr
        ELSE LET res1 == mm(invr.val, res0)
                 res2 == ColScale(self.diag_weight,
                            MatSub(MatScale(QMul(coe1, coe), X),
                                   MatScale(QMul(QMul(coe1, coe), coe), mm(X, res1))))
                 tmp  == DiagRowScale(self.diag_weight, mm(transpose(X), res2))
                 sum_orders == order_func(self, X, res2, A)
                 z    == calc_z(self, X, H0, A, lapack)
             IN  IF sum_orders.err # "" THEN sum_orders
                 ELSE IF z.err # "" THEN z
                 ELSE Ok(MatAdd(MatSub(MatAdd(MatScale(coe1, mm(X, tmp)),
                                              MatScale(self.beta, sum_orders.val)),
                                       MatScale(QMul(self.gamma, coe1), mm(H0, tmp))),
                                MatScale(self.gamma, H0)))

\* self.norm, chosen in __init__ by norm_func_id
norm(self, X, H0, A, lapack) ==
    IF self.norm_func_id = 1 THEN norm_func1(self, X, H0, A, lapack)
    ELSE norm_func2(self, X, H0, A, lapack)

\* diag_weight doubled in place by the call
self_after_norm_rescaled(self) ==
    [self EXCEPT !.diag_weight =
        [c \in 1..Len(self.diag_weight) |-> QMul(I2Q(2), self.diag_weight[c])]]

\* The attributes of self when norm_func1 / norm_func2 returns: every statement
\* of the two (and of the order_func they call) binds a local name to a new
\* tensor; the one in-place update, "a_sum +=", is on a local tensor.
self_after_norm(self) == self

\* self.diag_weight = Parameter(torch.ones(nclass, 1) / nclass)
init_diag_weight == [c \in 1..nclass |-> QDiv(One, I2Q(nclass))]

(***************************************************************************)
(* The model object and the parts of the state a specification leaves idle.*)
(***************************************************************************)
Self == [alpha |-> alpha, beta |-> beta, gamma |-> gamma, orders |-> orders,
         orders_weight |-> orders_weight,
         orders_weight_matrix |-> orders_weight_matrix,
         orders_weight_matrix2 |-> orders_weight_matrix2,
         diag_weight |-> diag_weight,
         norm_func_id |-> norm_func_id, orders_func_id |-> orders_func_id]

\* the attributes of the model object become those of s
SetSelf(s) ==
    /\ alpha' = s.alpha /\ beta' = s.beta /\ gamma' = s.gamma
    /\ orders' = s.orders /\ orders_weight' = s.orders_weight
    /\ orders_weight_matrix' = s.orders_weight_matrix
    /\ orders_weight_matrix2' = s.orders_weight_matrix2
    /\ diag_weight' = s.diag_weight
    /\ norm_func_id' = s.norm_func_id /\ orders_func_id' = s.orders_func_id

WeightVals == {Q(1, 2), I2Q(-1)}
ScaleVals  == {Zero, I2Q(2), Q(-1, 2)}

IdleNum ==
    /\ adj = <<>> /\ x = <<>> /\ h0 = <<>>
    /\ orders = 0 /\ orders_weight = <<>>
    /\ orders_weight_matrix = <<>> /\ orders_weight_matrix2 = <<>>
    /\ diag_weight = <<>> /\ norm_layers = 0 /\ layer = 0
    /\ norm_func_id = 1 /\ orders_func_id = 1
    /\ alpha = One /\ beta = Zero /\ gamma = Zero
    /\ scale = One /\ result = NoResult /\ result2 = NoResult
    /\ lapack_build = ""
IdleData == mx = <<>>
IdleTrain ==
    /\ epochs = 0 /\ early_stopping = 0 /\ fastmode = FALSE
    /\ epoch = 0 /\ best_metric = 0 /\ patience = 0 /\ best_params = <<>>
    /\ metric_val = 0 /\ heap = [live |-> 0, snap |-> 0]
    /\ output = [params |-> 0, training |-> FALSE]
    /\ raised = "" /\ crash = "" /\ stop = "" /\ last_improve = -1
IdleSplit ==
    /\ split_mode = "" /\ has_masks = FALSE
    /\ train_mask = {} /\ val_mask = {} /\ test_mask = {} /\ mask = <<>>
    /\ called = "" /\ dataset_str = "" /\ done = <<>>
IdleFwd ==
    /\ features = <<>> /\ fc1 = <<>> /\ fc2 = <<>> /\ fc3 = <<>>
    /\ delta = One /\ dropout = Zero /\ training = FALSE
    /\ drop_mask1 = <<>> /\ drop_mask2 = <<>>

(***************************************************************************)
(* SpecProp: the propagation operators applied to the program's inputs.    *)
(***************************************************************************)
InitProp ==
    /\ pc = "start"
    /\ \E raw \in RawAdjacencies : adj = load_adj(raw)
    /\ x \in Embeddings
    /\ h0 = x
    /\ orders \in 0..MaxOrders
    /\ orders_weight \in [1..orders -> WeightVals]
    /\ orders_weight_matrix = <<>> /\ orders_weight_matrix2 = <<>>
    /\ diag_weight = <<>> /\ norm_layers = 0 /\ layer = 0
    /\ norm_func_id = 1 /\ orders_func_id = 1
    /\ alpha = One /\ beta = Zero /\ gamma = Zero
    /\ scale = One /\ result = NoResult /\ result2 = NoResult
    /\ lapack_build = ""
    /\ IdleData /\ IdleTrain /\ IdleSplit /\ IdleFwd

propFrame == <<adj, x, h0, orders, orders_weight_matrix, orders_weight_matrix2,
               diag_weight, norm_func_id, norm_layers, layer, orders_func_id,
               alpha, beta, gamma, lapack_build,
               dataVars, trainVars, splitVars, fwdVars>>

\* sum_orders = self.order_func1(x, res, adj)
CallOrderFunc1 ==
    /\ pc = "start"
    /\ result' = order_func1(orders, x, adj)
    /\ pc' = "order_func1"
    /\ UNCHANGED <<propFrame, orders_weight, scale, result2>>

\* sum_orders = self.order_func2(x, res, adj)
CallOrderFunc2 ==
    /\ pc = "start"
    /\ result' = order_func2(orders, orders_weight, x, adj)
    /\ pc' = "order_func2"
    /\ UNCHANGED <<propFrame, orders_weight, scale, result2>>

\* every w_k multiplied by c, and order_func2 called again on the same inputs
RescaleAndCallOrderFunc2 ==
    /\ pc = "order_func2"
    /\ \E c \in ScaleVals :
        /\ scale' = c
        /\ orders_weight' = [k \in 1..Len(orders_weight) |-> QMul(c, orders_weight[k])]
    /\ result2' = result
    /\ result' = order_func2(orders, orders_weight', x, adj)
    /\ pc' = "order_func2_rescaled"
    /\ UNCHANGED propFrame

NextProp == CallOrderFunc1 \/ CallOrderFunc2 \/ RescaleAndCallOrderFunc2

SpecProp == InitProp /\ [][NextProp]_vars

\* A^k by repeated multiplication of A with itself
RECURSIVE MatPow(_, _)
MatPow(A, k) == IF k = 0 THEN eye(Rows(A)) ELSE mm(A, MatPow(A, k - 1))

\* sum_{k=1..K} w_k * (A^k R), each power of A formed on its own
RECURSIVE WeightedPowerSum(_, _, _, _)
WeightedPowerSum(A, R, w, K) ==
    IF K = 0 THEN zeros(Rows(R), Cols(R))
    ELSE MatAdd(WeightedPowerSum(A, R, w, K - 1), MatScale(w[K], mm(MatPow(A, K), R)))

AllOnes(K) == [k \in 1..K |-> One]

\* C1: order_func1 returns R + sum_{k=1..K} A^k R for every K >= 0 (R itself
\* for K = 0).
C1_OrderFunc1PowerSum ==
    pc = "order_func1" =>
        /\ result = Ok(MatAdd(x, WeightedPowerSum(adj, x, AllOnes(orders), orders)))
        /\ (orders = 0 => result = Ok(x))

C1_Witness ==
    /\ pc = "order_func1" /\ orders = 2
    /\ \E i \in 1..NNodes : adj[i][i] # One
    /\ result.err = "" /\ result.val # x

\* C5: order_func2 returns sum_{k=1..K} w_k (A^k R) for every K, the zero
\* matrix (the empty sum) for K = 0.
C5_OrderFunc2WeightedSum ==
    pc = "order_func2" =>
        result = Ok(WeightedPowerSum(adj, x, orders_weight, orders))

\* C6: order_func2 with the weights c*w returns c times what it returns with w.
C6_OrderFunc2Linear ==
    (pc = "order_func2_rescaled" /\ orders >= 1) =>
        /\ result2.err = "" /\ result.err = ""
        /\ result.val = MatScale(scale, result2.val)

C6_Witness ==
    /\ pc = "order_func2_rescaled" /\ orders = 2 /\ scale = I2Q(2)
    /\ result.err = "" /\ result.val # result2.val

(***************************************************************************)
(* SpecNorm: the normalization loop of MLP_NORM.forward.                   *)
(***************************************************************************)
\* (alpha, beta, gamma) of the runs modelled
HyperParams == {<<One, Zero, Zero>>, <<One, Zero, One>>,
                <<Q(1, 2), Q(1, 2), Q(1, 5)>>}
\* (norm_func_id, orders_func_id) of the runs modelled
FuncIds == {<<1, 1>>, <<1, 2>>, <<2, 3>>}

InitNorm ==
    /\ pc = "forward"
    /\ \E raw \in RawAdjacencies : adj = load_adj(raw)
    /\ h0 \in Embeddings            \* h0 = x, the output of fc2
    /\ x = h0
    /\ orders \in {0, 1, MaxOrders}
    /\ orders_weight = init_orders_weight(orders)
    /\ orders_weight_matrix = [c \in 1..nclass |-> [k \in 1..orders |-> One]]
    /\ orders_weight_matrix2 = eye(orders)
    /\ diag_weight = init_diag_weight
    /\ \E f \in FuncIds : norm_func_id = f[1] /\ orders_func_id = f[2]
    /\ norm_layers = 1 /\ layer = 0   \* one NormalizationStep iteration
    /\ \E h \in HyperParams : alpha = h[1] /\ beta = h[2] /\ gamma = h[3]
    /\ scale = One /\ result = NoResult /\ result2 = NoResult
    /\ lapack_build \in LapackOutcomes
    /\ IdleData /\ IdleTrain /\ IdleSplit /\ IdleFwd

normFrame == <<adj, h0, norm_layers, scale, lapack_build,
               dataVars, trainVars, splitVars, fwdVars>>

\* one iteration of "for _ in range(self.norm_layers): x = self.norm(x, h0, adj)"
NormLayer ==
    /\ pc \in {"forward", "norm"}
    /\ layer < norm_layers
    /\ LET r == norm(Self, x, h0, adj, lapack_build)
       IN  /\ result' = r
           /\ IF r.err = ""
              THEN x' = r.val /\ layer' = layer + 1 /\ pc' = "norm"
              ELSE x' = x /\ layer' = layer /\ pc' = "raised"
    /\ SetSelf(self_after_norm(Self))
    /\ UNCHANGED <<normFrame, result2>>

\* self.norm applied once more to the arguments of the first iteration
\* (x = h0 there), as the next forward pass on the same features does
NormAgain ==
    /\ pc \in {"norm", "raised"}
    /\ layer <= 1
    /\ result2' = norm(Self, h0, h0, adj, lapack_build)
    /\ SetSelf(self_after_norm(Self))
    /\ pc' = "norm_again"
    /\ UNCHANGED <<normFrame, x, layer, result>>

NextNorm == NormLayer \/ NormAgain

SpecNorm == InitNorm /\ [][NextNorm]_vars

\* C7: with beta = 0 and gamma = 1 one application of norm_func1 returns
\* gamma*H0 = H0, whatever X and A are.
C7_GammaOneReturnsH0 ==
    (pc \in {"norm", "raised", "norm_again"} /\ norm_func_id = 1 /\ beta = Zero
        /\ gamma = One) =>
        result = Ok(MatScale(gamma, h0))

\* the end-to-end scenario: identity adjacency, orders = 1, norm_func_id = 1,
\* orders_func_id = 1, alpha = 1, beta = 0, gamma = 0
Scenario ==
    /\ adj = eye(NNodes) /\ orders = 1 /\ norm_func_id = 1 /\ orders_func_id = 1
    /\ alpha = One /\ beta = Zero /\ gamma = Zero

\* C8: in the end-to-end scenario one iteration of norm_func1 on X = H0 does
\* not raise and returns X G (I + G)^-1 with G = X^T X, i.e. the Y with
\* Y (I + G) = X G.
C8_ScenarioClosedForm ==
    (Scenario /\ pc # "forward") =>
        /\ pc \in {"norm", "norm_again"} /\ layer = 1
        /\ result.err = "" /\ x = result.val
        /\ LET G == mm(transpose(h0), h0)
           IN  mm(result.val, MatAdd(eye(nclass), G)) = mm(h0, G)

C8_Witness ==
    /\ Scenario /\ pc = "norm" /\ layer = 1
    /\ result.err = "" /\ result.val # h0 /\ result.val # zeros(NNodes, nclass)

\* the hyperparameters and the learned weights of the model object
selfAttrs == <<alpha, beta, gamma, orders, orders_weight, orders_weight_matrix,
               orders_weight_matrix2, diag_weight, norm_func_id, orders_func_id>>

linear(fc, X) ==
    LET y == mm(X, transpose(fc.weight))
    IN  Row([i \in 1..Rows(X) |->
                Row([j \in 1..Len(fc.bias) |-> QAdd(y[i][j], fc.bias[j])],
                    Len(fc.bias))], Rows(X))

\* F.dropout(X, p, training): in training with p > 0 the entries the drawn
\* mask keeps, scaled by 1/(1-p), the others 0; X itself otherwise
F_dropout(X, p, train, keep) ==
    IF train /\ p # Zero
    THEN LET c == QDiv(One, QSub(One, p))
         IN  Row([i \in 1..Rows(X) |->
                    Row([j \in 1..Cols(X) |->
                            IF keep[i][j] THEN QMul(c, X[i][j]) ELSE Zero],
                        Cols(X))], Rows(X))
    ELSE X

\* forward up to "h0 = x".  The result of the first F.dropout is bound to xX
\* and the next statement binds xX again, to fc1 of the features themselves.
forward_mix(self, feats, A, keep1, keep2) ==
    LET xX_dropped == F_dropout(feats, self.dropout, self.training, keep1)
        xX == linear(self.fc1, feats)
        xA == linear(self.fc3, A)
        x1 == relu(MatAdd(MatScale(self.delta, xX),
                          MatScale(QSub(One, self.delta), xA)))
        x2 == F_dropout(x1, self.dropout, self.training, keep2)
    IN  linear(self.fc2, x2)

\* F.log_softmax(x, dim=1) is each row of x minus a constant of that row, and
\* two rows have the same log-softmax exactly when they differ by a constant:
\* the row minus its first entry stands for the log-softmax of the row.
log_softmax(M) ==
    Row([i \in 1..Rows(M) |->
            Row([j \in 1..Cols(M) |-> QSub(M[i][j], M[i][1])], Cols(M))], Rows(M))

\* the layers and the dropout settings of the model object
Module == [fc1 |-> fc1, fc2 |-> fc2, fc3 |-> fc3, delta |-> delta,
           dropout |-> dropout, training |-> training]

\* the feature matrices of the runs modelled, as load_data_new hands them on:
\* all ones, one-hot rows, a lower triangle
ForwardFeatures ==
    {load_features(Row([i \in 1..NNodes |->
                          Row([j \in 1..NFeat |->
                                IF (k = 1) \/ (k = 2 /\ j = ((i - 1) % NFeat) + 1)
                                           \/ (k = 3 /\ j <= i)
                                THEN One ELSE Zero], NFeat)], NNodes)) :
        k \in 1..3}

\* the keep masks of the runs modelled: all kept, and the two checkerboards
KeepMasks(n, m) ==
    {Row([i \in 1..n |-> Row([j \in 1..m |-> (k = 2) \/ ((i + j) % 2 = k)], m)], n) :
        k \in 0..2}

\* the nn.Linear layers of the runs modelled
Layer(w, out, in) ==
    IF w = 1
    THEN [weight |-> Row([o \in 1..out |->
                            Row([i \in 1..in |-> IF o = i THEN One ELSE Zero], in)],
                         out),
          bias   |-> Row([o \in 1..out |-> Zero], out)]
    ELSE [weight |-> Row([o \in 1..out |->
                            Row([i \in 1..in |->
                                    IF (o + i) % 2 = 0 THEN One ELSE I2Q(-1)], in)],
                         out),
          bias   |-> Row([o \in 1..out |-> One], out)]

InitForward ==
    /\ pc = "model"
    /\ features \in ForwardFeatures
    /\ \E raw \in RawAdjacencies : adj = load_adj(raw)
    /\ \E w \in 1..2 :
        /\ fc1 = Layer(w, nhid, NFeat)
        /\ fc2 = Layer(w, nclass, nhid)
        /\ fc3 = Layer(w, nhid, NNodes)
    /\ delta \in {One, Q(1, 2)}
    /\ dropout \in {Zero, Q(1, 2)}
    /\ training \in BOOLEAN
    /\ drop_mask1 \in KeepMasks(NNodes, NFeat)
    /\ drop_mask2 \in KeepMasks(NNodes, nhid)
    /\ x = <<>> /\ h0 = <<>>
    /\ orders = 1
    /\ orders_weight = init_orders_weight(orders)
    /\ orders_weight_matrix = [c \in 1..nclass |-> [k \in 1..orders |-> One]]
    /\ orders_weight_matrix2 = eye(orders)
    /\ diag_weight = init_diag_weight
    /\ \E f \in FuncIds : norm_func_id = f[1] /\ orders_func_id = f[2]
    /\ norm_layers = 1 /\ layer = 0
    /\ alpha = Q(1, 2) /\ beta = Q(1, 2) /\ gamma = Q(1, 5)
    /\ scale = One /\ result = NoResult /\ result2 = NoResult
    /\ lapack_build \in LapackOutcomes
    /\ IdleData /\ IdleTrain /\ IdleSplit

forwardFrame == <<adj, orders, orders_weight, orders_weight_matrix,
                  orders_weight_matrix2, diag_weight, norm_func_id, norm_layers,
                  layer, orders_func_id, alpha, beta, gamma, scale, result2,
                  lapack_build, dataVars, trainVars, splitVars, fwdVars>>

\* forward, from its first statement to "h0 = x"
ForwardMix ==
    /\ pc = "model"
    /\ LET h == forward_mix(Module, features, adj, drop_mask1, drop_mask2)
       IN  x' = h /\ h0' = h
    /\ pc' = "forward"
    /\ UNCHANGED <<forwardFrame, result>>

\* return F.log_softmax(x, dim=1)
LogSoftmax ==
    /\ pc = "norm" /\ layer = norm_layers
    /\ result' = Ok(log_softmax(x))
    /\ pc' = "returned"
    /\ UNCHANGED <<forwardFrame, x, h0>>

NextForward == ForwardMix \/ NormLayer \/ LogSoftmax

SpecForward == InitForward /\ [][NextForward]_vars

\* the mix with Linear1 applied to the dropout-masked features
mix_of(feats1) ==
    relu(MatAdd(MatScale(delta, linear(fc1, feats1)),
                MatScale(QSub(One, delta), linear(fc3, adj))))

\* C13: in training mode with p > 0 the embedding handed to the
\* normalization loop is fc2 of the dropout-masked mix of fc1 of the
\* dropout-masked features with fc3 of the adjacency; in evaluation mode it
\* is fc2 of the mix of the features themselves, whatever the masks are.
C13_DropoutBeforeAndAfterMix ==
    pc \in {"forward", "norm", "raised", "returned"} =>
        h0 = IF training /\ dropout # Zero
             THEN linear(fc2, F_dropout(mix_of(F_dropout(features, dropout, TRUE,
                                                           drop_mask1)),
                                        dropout, TRUE, drop_mask2))
             ELSE linear(fc2, mix_of(features))

(***************************************************************************)
(* SpecData: load_data_new normalizing the features and the adjacency.     *)
(***************************************************************************)
FeatVals == {I2Q(-1), Zero, One}
FeatureMatrices == [1..NNodes -> [1..NFeat -> FeatVals]]
\* an undirected graph that may hold self-loops
RawAdjacenciesWithLoops ==
    {M \in [1..NNodes -> [1..NNodes -> {Zero, One}]] :
        \A i, j \in 1..NNodes : M[i][j] = M[j][i]}

InitData ==
    /\ \/ pc = "features" /\ mx \in FeatureMatrices
       \/ pc = "adj" /\ mx \in RawAdjacenciesWithLoops
    /\ result = NoResult
    /\ adj = <<>> /\ x = <<>> /\ h0 = <<>>
    /\ orders = 0 /\ orders_weight = <<>>
    /\ orders_weight_matrix = <<>> /\ orders_weight_matrix2 = <<>>
    /\ diag_weight = <<>> /\ norm_layers = 0 /\ layer = 0
    /\ norm_func_id = 1 /\ orders_func_id = 1
    /\ alpha = One /\ beta = Zero /\ gamma = Zero
    /\ scale = One /\ result2 = NoResult /\ lapack_build = ""
    /\ IdleTrain /\ IdleSplit /\ IdleFwd

dataFrame == <<mx, adj, x, h0, orders, orders_weight, orders_weight_matrix,
               orders_weight_matrix2, diag_weight, norm_func_id, norm_layers,
               layer, orders_func_id, alpha, beta, gamma, scale, result2,
               lapack_build, trainVars, splitVars, fwdVars>>

\* features = normalize(features)
NormalizeFeatures ==
    /\ pc = "features"
    /\ result' = Ok(load_features(mx))
    /\ pc' = "features_loaded"
    /\ UNCHANGED dataFrame

\* adj = normalize(adj + sp.eye(adj.shape[0]))
NormalizeAdj ==
    /\ pc = "adj"
    /\ result' = Ok(load_adj(mx))
    /\ pc' = "adj_loaded"
    /\ UNCHANGED dataFrame

NextData == NormalizeFeatures \/ NormalizeAdj

SpecData == InitData /\ [][NextData]_vars

RowIsZero(r) == \A j \in 1..Len(r) : r[j] = Zero

\* the matrix normalize was called on
NormalizeArg == IF pc = "adj_loaded" THEN MatAdd(mx, eye(Rows(mx))) ELSE mx

\* C4: every row of normalize's output is finite and sums to 1 or to 0, to 0
\* only when the input row sums to 0, and then it is the all-zero row; every
\* row of the self-loop-augmented normalized adjacency sums to 1.
C4_RowsSumToOneOrZero ==
    /\ pc \in {"features_loaded", "adj_loaded"} =>
        /\ result.err = "" /\ MatFinite(result.val)
        /\ \A i \in 1..Rows(mx) :
            LET s_out == QSum(result.val[i])
                s_in  == QSum(NormalizeArg[i])
            IN  /\ s_out \in {Zero, One}
                /\ s_out = Zero => s_in = Zero
                /\ s_in = Zero => RowIsZero(result.val[i])
    /\ pc = "adj_loaded" => \A i \in 1..Rows(mx) : QSum(result.val[i]) = One

C4_Witness ==
    /\ pc = "features_loaded"
    /\ \E i, k \in 1..NNodes :
        /\ QSum(mx[i]) = Zero /\ ~RowIsZero(mx[i]) /\ RowIsZero(result.val[i])
        /\ QSum(mx[k]) = I2Q(-1) /\ QSum(result.val[k]) = One

(***************************************************************************)
(* SpecTrain: the training script, from "best_metric = 0" to the test.     *)
(*                                                                         *)
(* The parameters of the model are one value in tensor storage: the number *)
(* of optimizer steps applied to them.  heap.live is the storage of the    *)
(* model's own tensors, heap.snap the storage a deepcopy allocates.        *)
(* best_params is <<>> (None) or <<r>>, a reference to storage r.          *)
(***************************************************************************)
\* model.state_dict(): references to the tensors of the model
state_dict == "live"

\* the dictionary bound without a copy
deepcopy_alias(hp, ref) == [heap |-> hp, ref |-> ref]

\* deepcopy(d): the contents of d in storage of its own
deepcopy(hp, ref) == [heap |-> [hp EXCEPT !.snap = hp[ref]], ref |-> "snap"]

\* if metric_val > best_metric
improves(m, best) == m > best

\* ">" in place of ">="
patience_exceeded(p, limit) == p > limit

\* if patience >= args.early_stopping
patience_reached(p, limit) == p >= limit

InitTrain ==
    /\ pc = "loop"
    /\ epochs \in 0..MaxEpochs
    /\ early_stopping \in 0..MaxPatience
    /\ fastmode \in BOOLEAN
    /\ epoch = 0 /\ best_metric = 0 /\ patience = 0 /\ best_params = <<>>
    /\ metric_val = 0
    /\ heap = [live |-> 0, snap |-> 0]
    /\ output = [params |-> 0, training |-> FALSE]
    /\ raised = "" /\ crash = "" /\ stop = "" /\ last_improve = -1
    /\ IdleNum /\ IdleData /\ IdleSplit /\ IdleFwd

trainFrame == <<numVars, dataVars, splitVars, fwdVars, epochs, early_stopping,
                fastmode>>

\* one epoch up to optimizer.step(): model.train(), forward, loss, metric_train
\* (outside any try), backward, step
TrainStep ==
    /\ pc = "loop" /\ epoch < epochs
    /\ output' = [params |-> heap.live, training |-> TRUE]
    /\ \/ /\ raised' = "metric_train" /\ crash' = "metric_train"
          /\ pc' = "crashed"
          /\ heap' = heap
       \/ /\ heap' = [heap EXCEPT !.live = @ + 1]
          /\ pc' = "validate"
          /\ UNCHANGED <<raised, crash>>
    /\ UNCHANGED <<trainFrame, epoch, best_metric, patience, best_params,
                   metric_val, stop, last_improve>>

\* range(args.epochs) is exhausted
LoopExhausted ==
    /\ pc = "loop" /\ epoch = epochs
    /\ stop' = "budget"
    /\ pc' = "load"
    /\ UNCHANGED <<trainFrame, epoch, best_metric, patience, best_params,
                   metric_val, heap, output, raised, crash, last_improve>>

\* the rest of the epoch: the evaluation pass unless fastmode, metric_val in
\* its try, the best_metric / patience update and the early-stopping test
Validate ==
    /\ pc = "validate"
    /\ output' = IF fastmode THEN output
                 ELSE [params |-> heap.live, training |-> FALSE]
    /\ \/ /\ raised' = "metric_val" /\ stop' = "exception"
          /\ pc' = "load"
          /\ UNCHANGED <<epoch, best_metric, patience, best_params, metric_val,
                         heap, last_improve>>
       \/ /\ \E m \in 0..MaxMetric : metric_val' = m
          /\ IF improves(metric_val', best_metric)
             THEN LET c == deepcopy(heap, state_dict)
                  IN  /\ best_metric' = metric_val'
                      /\ best_params' = <<c.ref>>
                      /\ heap' = c.heap
                      /\ patience' = 0
                      /\ last_improve' = epoch
             ELSE /\ patience' = patience + 1
                  /\ UNCHANGED <<best_metric, best_params, heap, last_improve>>
          /\ IF patience_reached(patience', early_stopping)
             THEN stop' = "patience" /\ pc' = "load" /\ epoch' = epoch
             ELSE stop' = stop /\ pc' = "loop" /\ epoch' = epoch + 1
          /\ raised' = raised
    /\ UNCHANGED <<trainFrame, crash>>

\* model.load_state_dict(best_params); None has no items to load
LoadBest ==
    /\ pc = "load"
    /\ \/ /\ best_params = <<>>
          /\ crash' = "load_state_dict" /\ pc' = "crashed"
          /\ heap' = heap
       \/ /\ best_params # <<>>
          /\ heap' = [heap EXCEPT !.live = heap[best_params[1]]]
          /\ pc' = "test"
          /\ crash' = crash
    /\ UNCHANGED <<trainFrame, epoch, best_metric, patience, best_params,
                   metric_val, output, raised, stop, last_improve>>

\* model.eval(); output = model(features, adj); loss_test; metric_test
Test ==
    /\ pc = "test"
    /\ output' = [params |-> heap.live, training |-> FALSE]
    /\ \/ crash' = "metric_test" /\ pc' = "crashed"
       \/ crash' = crash /\ pc' = "done"
    /\ UNCHANGED <<trainFrame, epoch, best_metric, patience, best_params,
                   metric_val, heap, raised, stop, last_improve>>

NextTrain == TrainStep \/ LoopExhausted \/ Validate \/ LoadBest \/ Test

SpecTrain == InitTrain /\ [][NextTrain]_vars

\* C2: with a patience limit P >= 1 the loop is left by early stopping at the
\* end of the epoch exactly P epochs after the last improving one (after P
\* epochs when none improved), never earlier and never later, and the budget
\* ends it only when the budget is smaller than that.
C2_StopsAfterPatienceLimit ==
    early_stopping >= 1 =>
        /\ stop = "patience" => epoch = last_improve + early_stopping
        /\ pc \in {"loop", "validate"} => epoch - last_improve <= early_stopping
        /\ stop = "budget" => epochs <= last_improve + early_stopping

C2_Witness ==
    /\ stop = "patience" /\ early_stopping = 2
    /\ last_improve = 0 /\ epoch = 2 /\ epochs > 3

\* the contents best_params refers to
Snapshot == IF best_params = <<>> THEN <<>> ELSE <<heap[best_params[1]]>>

\* C3: best_params and the contents it refers to change only in the
\* validation of an epoch whose metric strictly exceeds best_metric; optimizer
\* steps on the live model leave both as they are.
C3_SnapshotChangesOnlyOnImprovement ==
    [][(best_params' # best_params \/ Snapshot' # Snapshot) =>
          (pc = "validate" /\ raised' = raised /\ metric_val' > best_metric)]_vars

C3_Witness ==
    /\ best_params # <<>> /\ pc = "validate"
    /\ heap.live >= Snapshot[1] + 2

\* C9: an error raised by a metric computation of a training epoch ends the
\* loop there and the run goes on to the test evaluation: no uncaught
\* exception ends the run before the test.
C9_MetricErrorReachesTest ==
    raised # "" =>
        /\ crash \notin {"metric_train", "load_state_dict"}
        /\ pc \in {"load", "test", "done", "crashed"}

\* C14: whenever model.load_state_dict(best_params) is about to run, on each
\* way out of the loop (budget, patience, metric exception), best_params is a
\* snapshot of the parameters and not the initial None.
C14_BestParamsSetAtLoad ==
    pc = "load" => best_params # <<>>

\* C15: each step that records a new best_metric computed it on an output
\* the model produced in evaluation mode from exactly the parameters the
\* step stores in best_params, with fastmode set or not.
C15_BestMeasuredOnSnapshot ==
    [][best_metric' # best_metric =>
          /\ best_params' # <<>>
          /\ output' = [params |-> heap'[best_params'[1]], training |-> FALSE]]_vars

(***************************************************************************)
(* SpecSplit: datasets.split and BaseGraph.get_split.                      *)
(***************************************************************************)
Nodes == 1..NNodes

\* The bytes torch.empty may leave in an int8 tensor: any of -128 .. 127.
\* get_split tells 0, 1 and 2 from each other and from every other byte, of
\* which -128 and 127 stand for all.
UninitBytes == {-128, 0, 1, 2, 127}

SplitModes == {"default", "dense", "sparse", "random"}

\* three pairwise disjoint node sets whose union may leave nodes out
DisjointSplits ==
    {t \in (SUBSET Nodes) \X (SUBSET Nodes) \X (SUBSET Nodes) :
        t[1] \cap t[2] = {} /\ t[1] \cap t[3] = {} /\ t[2] \cap t[3] = {}}

\* data.train_mask[:, split_id], data.val_mask[:, split_id],
\* data.test_mask[:, split_id]
data_masks == DisjointSplits

\* du.random_planetoid_splits(data, num_classes, percls_trn, val_lb)
random_planetoid_splits == DisjointSplits

\* mask[index] = value
index_put(m, index, value) == [i \in Nodes |-> IF i \in index THEN value ELSE m[i]]

\* mask[train_mask] = 0; mask[val_mask] = 1; mask[test_mask] = 2
fill_mask(empty, tr, va, te) ==
    index_put(index_put(index_put(empty, tr, 0), va, 1), te, 2)

\* BaseGraph.get_split: tmask = self.mask == tar_mask
tar_mask(name) == CASE name = "train" -> 0 [] name = "valid" -> 1 [] name = "test" -> 2
get_split(m, name) == {i \in Nodes : m[i] = tar_mask(name)}

\* the names of the two file schemes of load_data_new
geom_datasets == {"chameleon", "cornell", "film", "squirrel", "texas", "wisconsin"}
DATASET_LIST ==
    {"squirrel_directed", "chameleon_directed", "squirrel_filtered_directed",
     "chameleon_filtered_directed", "roman_empire", "minesweeper", "questions",
     "amazon_ratings", "tolokers"}

\* du.DATASET_LIST, the names du.DataLoader knows
du_DATASET_LIST == {"cora", "film", "texas"}

\* the names a loader is called with
DatasetNames == {"texas", "film", "minesweeper", "cora", "imagenet"}

\* what split(data, split, split_id) raises, "" when it returns a mask
split_error(mode, has) ==
    IF mode = "default" THEN (IF has THEN "" ELSE "AssertionError")
    ELSE IF mode \in {"dense", "sparse"} THEN ""
    ELSE "NotImplementedError"

InitSplit ==
    /\ called \in {"split", "load_dataset", "load_data_new"}
    /\ pc = called
    /\ dataset_str \in (IF called = "split" THEN {""} ELSE DatasetNames)
    /\ split_mode \in (IF called = "load_data_new" THEN {""} ELSE SplitModes)
    /\ has_masks \in (IF called = "load_data_new" THEN {FALSE} ELSE BOOLEAN)
    /\ \E t \in (IF called = "load_data_new" THEN {<<{}, {}, {}>>}
                 ELSE IF split_mode = "default" THEN data_masks
                 ELSE random_planetoid_splits) :
        train_mask = t[1] /\ val_mask = t[2] /\ test_mask = t[3]
    /\ mask = <<>>
    /\ done = <<>>
    /\ result = NoResult
    /\ adj = <<>> /\ x = <<>> /\ h0 = <<>>
    /\ orders = 0 /\ orders_weight = <<>>
    /\ orders_weight_matrix = <<>> /\ orders_weight_matrix2 = <<>>
    /\ diag_weight = <<>> /\ norm_layers = 0 /\ layer = 0
    /\ norm_func_id = 1 /\ orders_func_id = 1
    /\ alpha = One /\ beta = Zero /\ gamma = Zero
    /\ scale = One /\ result2 = NoResult /\ lapack_build = ""
    /\ IdleData /\ IdleTrain /\ IdleFwd

splitFrame == <<numVars, dataVars, trainVars, fwdVars, split_mode, has_masks,
                train_mask, val_mask, test_mask, called, dataset_str>>

\* split(data, split, split_id); the masks of Init are data's own in the
\* default mode and what random_planetoid_splits returns otherwise
Split ==
    /\ pc = "split"
    /\ \/ /\ split_mode = "default" /\ ~has_masks
          /\ pc' = "raised: AssertionError" /\ mask' = mask /\ done' = done
       \/ /\ split_mode \notin {"default", "dense", "sparse"}
          /\ pc' = "raised: NotImplementedError" /\ mask' = mask /\ done' = done
       \/ /\ \/ split_mode = "default" /\ has_masks
             \/ split_mode \in {"dense", "sparse"}
          /\ \E empty \in [Nodes -> UninitBytes] :
                mask' = fill_mask(empty, train_mask, val_mask, test_mask)
          /\ done' = <<"torch.empty", "return">>
          /\ pc' = "split_done"
    /\ UNCHANGED splitFrame

\* load_dataset(name, split_t, split_id)
LoadDataset ==
    /\ pc = "load_dataset"
    /\ IF dataset_str \in du_DATASET_LIST
       THEN LET e == split_error(split_mode, has_masks)
            IN  IF e # ""
                THEN /\ done' = <<"du.DataLoader">>
                     /\ pc' = "raised: " \o e
                     /\ mask' = mask
                ELSE /\ \E empty \in [Nodes -> UninitBytes] :
                          mask' = fill_mask(empty, train_mask, val_mask, test_mask)
                     /\ done' = <<"du.DataLoader", "torch.empty", "BaseGraph",
                                  "torch.save", "return">>
                     /\ pc' = "load_dataset_done"
       ELSE /\ done' = <<>>
            /\ pc' = "raised: NotImplementedError"
            /\ mask' = mask
    /\ UNCHANGED splitFrame

\* load_data_new(dataset_str, split), the input files being there: a name of
\* neither scheme skips both branches, and line 413 reads the local adj that
\* no statement has bound
LoadDataNew ==
    /\ pc = "load_data_new"
    /\ IF dataset_str \in geom_datasets
       THEN /\ done' = <<"nx.adjacency_matrix", "sp.csr_matrix", "np.load",
                         "normalize", "return">>
            /\ pc' = "load_data_new_done"
       ELSE IF dataset_str \in DATASET_LIST
       THEN /\ done' = <<"np.load", "nx.adj_matrix", "normalize", "return">>
            /\ pc' = "load_data_new_done"
       ELSE /\ done' = <<>>
            /\ pc' = "raised: UnboundLocalError"
    /\ mask' = mask
    /\ UNCHANGED splitFrame

NextSplit == Split \/ LoadDataset \/ LoadDataNew

SpecSplit == InitSplit /\ [][NextSplit]_vars

\* C10: the three node sets are pairwise disjoint and the mask split returns
\* encodes exactly them: mask[i] is 0, 1 or 2 iff node i is in the train,
\* valid or test set, so a node of no set is in no get_split selection.
C10_MaskEncodesSplits ==
    pc = "split_done" =>
        /\ train_mask \cap val_mask = {} /\ train_mask \cap test_mask = {}
        /\ val_mask \cap test_mask = {}
        /\ \A i \in Nodes :
            /\ mask[i] = 0 <=> i \in train_mask
            /\ mask[i] = 1 <=> i \in val_mask
            /\ mask[i] = 2 <=> i \in test_mask
        /\ \A i \in Nodes \ (train_mask \cup val_mask \cup test_mask) :
            \A name \in {"train", "valid", "test"} : i \notin get_split(mask, name)

\* the errors a raise statement of the code names
ExplicitErrors == {"raised: NotImplementedError"}

\* the call was made with a split mode or a dataset name the function does
\* not support
UnsupportedConfig ==
    \/ called = "split" /\ split_mode \notin {"default", "dense", "sparse"}
    \/ called = "load_dataset" /\ dataset_str \notin du_DATASET_LIST
    \/ called = "load_data_new" /\ dataset_str \notin (geom_datasets \cup DATASET_LIST)

\* C12: split with an unsupported mode, and load_dataset / load_data_new with
\* an unsupported name, end in an explicitly raised error, and nothing has
\* been loaded, built, normalized, saved or returned before it.
C12_UnsupportedConfigRaises ==
    (UnsupportedConfig /\ pc # called) =>
        /\ pc \in ExplicitErrors
        /\ done = <<>> /\ mask = <<>>

=============================================================================
